---- MODULE Spec2Model ----
(***************************************************************************)
(* Model of the service controller of src/src/service-control.ts           *)
(* (createServiceController): instances of one service coordinate through  *)
(* a shared Redis store.  Every awaited store command is one atomic step;  *)
(* the local code that runs between two awaits belongs to the step of the  *)
(* command that precedes it.                                               *)
(***************************************************************************)
EXTENDS Integers, Sequences, FiniteSets, TLC

\* ------------------------------------------------------------------------
\* Bounds of the model
\* ------------------------------------------------------------------------
MaxOps == 2
MaxSignalWrites == 1
MaxPolls == 1
MaxTime == 1

\* ------------------------------------------------------------------------
\* Program constants
\* ------------------------------------------------------------------------
DefaultHeartbeatTtl == 30
ShutdownTtl == 10
CustomTtl == 60

\* ------------------------------------------------------------------------
\* Universe
\* ------------------------------------------------------------------------
\* Async control flows that call the controller, and the instance each
\* belongs to (one controller object per instance).  Flows "a" and "c" run
\* in the same process (the main flow, and a timer callback or termination
\* hook); flows "b" and "d" are the processes of a second and a third
\* instance.
Procs == {"a", "b", "c", "d"}

InstOf == [p \in Procs |-> IF p = "b" THEN 2 ELSE IF p = "d" THEN 3 ELSE 1]

Inst == {InstOf[p] : p \in Procs}

ServiceName == "svc"

\* A key that does not exist: redis.get resolves to null.
Nil == "<nil>"

\* The signal key holds a string; the code lower-cases it, so signal values
\* are sequences of characters.  NilSig stands for the absent key.
NilSig == <<"<nil>">>

S_pause == <<"p", "a", "u", "s", "e">>

S_resume == <<"r", "e", "s", "u", "m", "e">>

S_stop == <<"s", "t", "o", "p">>

\* Values an operator may write under the signal key.
SignalInputs ==
  { S_pause, <<"P", "A", "U", "S", "E">>,
    S_resume, <<"R", "e", "s", "u", "m", "e">>,
    S_stop, <<"S", "T", "O", "P">>,
    <<"p", "a", "u", "s", "e", "d">>, <<>> }

\* Values the state key may hold when the model starts (Nil: unset).
StateInputs == {Nil, "running", "paused", "stopping", "bogus", ""}

\* Arguments of heartbeat(statusOverride?) and shutdown(reason?); Nil is
\* an omitted argument.
OverrideInputs == {Nil, "stopping"}

ReasonInputs == {Nil, "SIGTERM"}

\* the termination signals register() installs a handler for
TriggerInputs == {"SIGINT", "SIGTERM"}

\* ------------------------------------------------------------------------
\* Pure parts of the code
\* ------------------------------------------------------------------------
UpperChars == <<"A", "B", "C", "D", "E", "F", "G", "H", "I", "J", "K", "L", "M",
                "N", "O", "P", "Q", "R", "S", "T", "U", "V", "W", "X", "Y", "Z">>

LowerChars == <<"a", "b", "c", "d", "e", "f", "g", "h", "i", "j", "k", "l", "m",
                "n", "o", "p", "q", "r", "s", "t", "u", "v", "w", "x", "y", "z">>

LowerChar(c) ==
  IF \E k \in 1..Len(UpperChars) : UpperChars[k] = c
  THEN LowerChars[CHOOSE k \in 1..Len(UpperChars) : UpperChars[k] = c]
  ELSE c

ToLowerCaseId(s) == s

\* signal.toLowerCase()
ToLowerCase(s) == [k \in 1..Len(s) |-> LowerChar(s[k])]

\* !signal : null or the empty string
SignalFalsy(v) == v = NilSig \/ v = <<>>

\* !existingState
StateFalsy(v) == v = Nil \/ v = ""

\* the switch of applySignal
SignalKind(normalized) ==
  IF normalized = S_pause THEN "pause"
  ELSE IF normalized = S_resume THEN "resume"
  ELSE IF normalized = S_stop THEN "stop"
  ELSE "unknown"

\* the state each case of the switch writes
SignalState(kind) ==
  IF kind = "pause" THEN "paused"
  ELSE IF kind = "resume" THEN "running"
  ELSE "stopping"

\* the value applySignal returns once the key is deleted
AppliedKind(kind) == IF kind = "unknown" THEN "none" ELSE kind

GetStateOfRaw(v) == IF v = Nil THEN "running" ELSE v

\* getState(): normalisation of the stored value
GetStateOf(v) ==
  IF v = "paused" THEN "paused"
  ELSE IF v = "stopping" THEN "stopping"
  ELSE "running"

ShouldStopRetSigOnly(sig, st) == IF sig = "stop" THEN "true" ELSE "false"

\* return sig === "stop" || state === "stopping"
ShouldStopRet(sig, st) ==
  IF sig = "stop" \/ st = "stopping" THEN "true" ELSE "false"

StaleRecoveryAlways(existingState, pendingSignal) == existingState = "stopping"

\* existingState === "stopping" && pendingSignal !== "stop"
StaleRecovery(existingState, pendingSignal) ==
  existingState = "stopping" /\ pendingSignal # S_stop

LoopExitResumeOnly(sig, st) == st = "running"

LoopExitStopOnly(sig, st) == sig = "stop" \/ st = "stopping"

\* the two break conditions of the pause loop
LoopExit(sig, st) == (sig = "stop" \/ st = "stopping") \/ st = "running"

\* if (state !== "paused") return
HotPathExitRunningOnly(st) == st = "running"

HotPathExit(st) == st # "paused"

DelKeep(v) == v

\* the value of a key after redis.del(key)
Del(v) == NilSig

FinalTtlDefault(cfg) == DefaultHeartbeatTtl

\* { ...DEFAULT_CONFIG, ...config }.heartbeatTtl
FinalTtl(cfg) == IF cfg = 0 THEN DefaultHeartbeatTtl ELSE cfg

ReportedAfterDelExclusive(kind, removed) ==
  IF removed THEN AppliedKind(kind) ELSE "none"

\* await redis.del(signalKey); return <kind>  -- the number of keys DEL
\* removed is not looked at
ReportedAfterDel(kind, removed) == AppliedKind(kind)

OnFailureThrown(o) == "thrown"

OnFailureCaught(o) == "caught"

\* what a method does with a rejected store command: shutdown catches it
\* (try/catch/finally), the other methods have no handler
OnFailure(o) == IF o = "shutdown" THEN "caught" ELSE "thrown"

\* reason ?? "manual"
StopReason(reason) == IF reason = Nil THEN "manual" ELSE reason

\* ------------------------------------------------------------------------
\* Instance descriptor (the JSON blob under the instance key)
\* ------------------------------------------------------------------------
NoTime == -1

\* register(): the initial payload
RegisterPayload(now) ==
  [startedAt |-> now, lastSeen |-> now, status |-> "running", stopReason |-> Nil]

\* raw ? JSON.parse(raw) : {}, and {} when JSON.parse throws  -- the fields
\* later code reads from the payload
ParsePayload(raw) ==
  IF raw = <<>> \/ ~raw[1].json THEN [startedAt |-> NoTime, stopReason |-> Nil]
  ELSE [startedAt |-> raw[1].body.startedAt, stopReason |-> raw[1].body.stopReason]

StartedAtOfNow(payload, now) == now

\* payload.startedAt ?? now
StartedAtOf(payload, now) ==
  IF payload.startedAt = NoTime THEN now ELSE payload.startedAt

\* heartbeat(): the body that is written back
HeartbeatBody(payload, now, status) ==
  [startedAt |-> StartedAtOf(payload, now), lastSeen |-> now,
   status |-> status, stopReason |-> payload.stopReason]

ShutdownBodyKeepStatus(payload, now, reason) ==
  [startedAt |-> StartedAtOf(payload, now), lastSeen |-> now,
   status |-> "running", stopReason |-> StopReason(reason)]

\* shutdown(): the body that is written back
ShutdownBody(payload, now, reason) ==
  [startedAt |-> StartedAtOf(payload, now), lastSeen |-> now,
   status |-> "stopping", stopReason |-> StopReason(reason)]

\* redis.set(key, blob, "EX", ttl) at time t
Blob(body, ttl, t) == <<[json |-> TRUE, body |-> body, ttl |-> ttl, exp |-> t + ttl]>>

\* ------------------------------------------------------------------------
\* State
\* ------------------------------------------------------------------------
VARIABLES
  state,       \* value of the state key (Nil: absent)
  signal,      \* value of the signal key (NilSig: absent)
  desc,        \* instance key of each instance: <<>> or <<blob>>
  services,    \* the services set
  instances,   \* the per-service instances set
  clock,       \* current time
  cfgTtl,      \* options.config.heartbeatTtl (0: not configured)
  pc,          \* store command each flow waits for ("idle": no call running)
  op,          \* controller method each flow runs, or ran last
  arg,         \* its argument
  loc,         \* its local variables
  gh,          \* history of the call, for the properties only
  quota,       \* calls each flow may start
  env,         \* what the environment may do (fixed by the initial state,
               \* except for the budgets it uses up)
  nOps,        \* calls each flow has started so far
  nSigWrites   \* operator writes so far

store == <<state, signal, desc, services, instances>>

flow == <<pc, op, arg, loc>>

vars == <<state, signal, desc, services, instances, clock, cfgTtl,
          pc, op, arg, loc, gh, quota, env, nOps, nSigWrites>>

Ops == {"register", "heartbeat", "getState", "shouldStop", "waitIfPaused", "shutdown"}

ArgsOf(o) ==
  IF o = "heartbeat" THEN OverrideInputs
  ELSE IF o = "shutdown" THEN ReasonInputs
  ELSE {Nil}

\* the first store command a method issues
FirstPc(o) ==
  CASE o = "register" -> "r_sadd_services"
    [] o = "heartbeat" -> "h_get"
    [] o = "getState" -> "g_get"
    [] o = "shouldStop" -> "a_get"
    [] o = "waitIfPaused" -> "a_get"
    [] o = "shutdown" -> "s_set_state"

LocInit ==
  [now |-> 0, existingState |-> Nil, kind |-> "", sig |-> "", st |-> "",
   payload |-> [startedAt |-> NoTime, stopReason |-> Nil], status |-> "",
   phase |-> "", ret |-> ""]

PrevInit == [op |-> "", ret |-> "", applied |-> "", nHb |-> 0, solo |-> FALSE]

GhInit ==
  [preState |-> Nil, preSignal |-> NilSig, solo |-> FALSE, stopSeen |-> FALSE,
   applied |-> "", wrote |-> {}, nApply |-> 0, nSleep |-> 0, nHb |-> 0,
   failedAt |-> "", log |-> {}, wroteAt |-> NoTime, stopInLoop |-> FALSE,
   afterStop |-> FALSE, hooked |-> FALSE, prev |-> PrevInit]

\* locals of flow p once its call has returned r: only what the caller sees
\* (and the last values of sig and state, which the properties read)
Returned(p, r, st) ==
  [loc EXCEPT ![p] = [LocInit EXCEPT !.ret = r, !.sig = loc[p].sig, !.st = st,
                                     !.phase = loc[p].phase]]

\* the counters of the history stop counting above what the bounded loop
\* can reach
Count(n) == IF n >= MaxPolls + 2 THEN n ELSE n + 1

\* a store write or an operator write by somebody else
Disturb(g) ==
  [g EXCEPT !.solo = FALSE, !.stopSeen = FALSE, !.prev.solo = FALSE]

\* history after flow p wrote key k
GhWrite(p, k) ==
  [q \in Procs |->
     IF q = p THEN [gh[q] EXCEPT !.wrote = @ \cup {k},
                                !.wroteAt = IF k = "desc" THEN clock ELSE @]
     ELSE Disturb(gh[q])]

\* settings of the environment; the fields are
\*   menu          methods each flow may call
\*   maxSigWrites  operator writes
\*   step, maxTime granularity and horizon of the clock
\*   live          the pause loop is not cut off after MaxPolls sleeps
\*   fails         store commands that may still fail
\*   corrupts      times the instance key may still be overwritten from outside
EnvInit ==
  [menu |-> [p \in Procs |-> Ops], maxSigWrites |-> MaxSignalWrites,
   step |-> 1, maxTime |-> MaxTime, live |-> FALSE, fails |-> 0, corrupts |-> 0]

Init ==
  /\ state \in StateInputs
  /\ signal = NilSig
  /\ desc = [i \in Inst |-> <<>>]
  /\ services = {}
  /\ instances = {}
  /\ clock = 0
  /\ cfgTtl \in {0, CustomTtl}
  /\ pc = [p \in Procs |-> "idle"]
  /\ op = [p \in Procs |-> ""]
  /\ arg = [p \in Procs |-> Nil]
  /\ loc = [p \in Procs |-> LocInit]
  /\ gh = [p \in Procs |-> GhInit]
  \* one controller makes calls; the operator and the clock are its environment
  /\ quota = [p \in Procs |-> IF p = "a" THEN MaxOps ELSE 0]
  /\ env = EnvInit
  /\ nOps = [p \in Procs |-> 0]
  /\ nSigWrites = 0

\* ------------------------------------------------------------------------
\* Environment
\* ------------------------------------------------------------------------
\* time passes; the store expires the instance keys whose TTL has elapsed
Tick ==
  /\ clock + env.step <= env.maxTime
  /\ clock' = clock + env.step
  /\ desc' = [i \in Inst |->
                IF desc[i] # <<>> /\ desc[i][1].exp <= clock' THEN <<>> ELSE desc[i]]
  /\ UNCHANGED <<state, signal, services, instances, cfgTtl, flow, gh, quota, env, nOps, nSigWrites>>

\* an operator writes a value under the signal key
OperatorSignal ==
  /\ nSigWrites < env.maxSigWrites
  /\ \E v \in SignalInputs :
       /\ signal' = v
       /\ gh' = [q \in Procs |->
                   [Disturb(gh[q]) EXCEPT
                      !.stopInLoop = /\ SignalKind(ToLowerCase(v)) = "stop"
                                     /\ op[q] = "waitIfPaused"
                                     /\ loc[q].phase = "loop"
                                     /\ pc[q] # "idle"]]
  /\ nSigWrites' = nSigWrites + 1
  /\ UNCHANGED <<state, desc, services, instances, clock, cfgTtl, flow, quota, env, nOps>>

\* ------------------------------------------------------------------------
\* A flow calls a method of its controller
\* ------------------------------------------------------------------------
Call(p) ==
  /\ pc[p] = "idle"
  /\ nOps[p] < quota[p]
  /\ \E o \in env.menu[p] : \E a \in ArgsOf(o) :
       /\ op' = [op EXCEPT ![p] = o]
       /\ arg' = [arg EXCEPT ![p] = a]
       /\ pc' = [pc EXCEPT ![p] = FirstPc(o)]
       /\ loc' = [loc EXCEPT ![p] =
                    [LocInit EXCEPT !.now = clock,
                                    !.phase = IF o = "waitIfPaused" THEN "first" ELSE ""]]
       /\ gh' = [gh EXCEPT ![p] =
                   [GhInit EXCEPT
                      !.preState = state, !.preSignal = signal, !.solo = TRUE,
                      !.stopSeen = gh[p].stopSeen /\ op[p] = "waitIfPaused"
                                     /\ o = "shouldStop",
                      !.nApply = IF o \in {"shouldStop", "waitIfPaused"} THEN 1 ELSE 0,
                      !.nHb = IF o = "heartbeat" THEN 1 ELSE 0,
                      !.wroteAt = gh[p].wroteAt,
                      !.afterStop =
                         \E q \in Procs :
                           /\ InstOf[q] # InstOf[p]
                           /\ \/ gh[q].applied = "stop"
                              \/ op[q] = "shutdown" /\ pc[q] = "idle",
                      !.prev = [op |-> op[p], ret |-> loc[p].ret,
                                applied |-> gh[p].applied, nHb |-> gh[p].nHb,
                                solo |-> gh[p].solo]]]
  /\ nOps' = [nOps EXCEPT ![p] = @ + 1]
  /\ UNCHANGED <<store, clock, cfgTtl, quota, env, nSigWrites>>

\* ------------------------------------------------------------------------
\* register()
\* ------------------------------------------------------------------------
\* await redis.sadd(servicesSetKey, options.serviceName)
RegSaddServices(p) ==
  /\ pc[p] = "r_sadd_services"
  /\ services' = services \cup {ServiceName}
  /\ pc' = [pc EXCEPT ![p] = "r_sadd_instances"]
  /\ gh' = GhWrite(p, "services")
  /\ UNCHANGED <<state, signal, desc, instances, clock, cfgTtl, op, arg, loc, quota, env, nOps, nSigWrites>>

\* await redis.sadd(instancesSetKey, instanceId)
RegSaddInstances(p) ==
  /\ pc[p] = "r_sadd_instances"
  /\ instances' = instances \cup {InstOf[p]}
  /\ pc' = [pc EXCEPT ![p] = "r_set_desc"]
  /\ gh' = GhWrite(p, "instances")
  /\ UNCHANGED <<state, signal, desc, services, clock, cfgTtl, op, arg, loc, quota, env, nOps, nSigWrites>>

\* await redis.set(instanceKey, JSON.stringify(payload), "EX", heartbeatTtl)
RegSetDesc(p) ==
  /\ pc[p] = "r_set_desc"
  /\ desc' = [desc EXCEPT ![InstOf[p]] =
                Blob(RegisterPayload(loc[p].now), FinalTtl(cfgTtl), clock)]
  /\ pc' = [pc EXCEPT ![p] = "r_get_state"]
  /\ gh' = GhWrite(p, "desc")
  /\ UNCHANGED <<state, signal, services, instances, clock, cfgTtl, op, arg, loc, quota, env, nOps, nSigWrites>>

\* const existingState = await redis.get(stateKey); if (!existingState) ...
RegGetState(p) ==
  /\ pc[p] = "r_get_state"
  /\ loc' = [loc EXCEPT ![p].existingState = state]
  /\ pc' = [pc EXCEPT ![p] = IF StateFalsy(state) THEN "r_init_state" ELSE "r_get_signal"]
  /\ UNCHANGED <<store, clock, cfgTtl, op, arg, gh, quota, env, nOps, nSigWrites>>

\* await redis.set(stateKey, "running")  (state not set)
RegInitState(p) ==
  /\ pc[p] = "r_init_state"
  /\ state' = "running"
  /\ pc' = [pc EXCEPT ![p] = "r_get_signal"]
  /\ gh' = GhWrite(p, "state")
  /\ UNCHANGED <<signal, desc, services, instances, clock, cfgTtl, op, arg, loc, quota, env, nOps, nSigWrites>>

\* const pendingSignal = await redis.get(signalKey); stale-state test;
\* without recovery the method installs its hooks and returns
RegGetSignal(p) ==
  /\ pc[p] = "r_get_signal"
  /\ IF StaleRecovery(loc[p].existingState, signal)
     THEN /\ pc' = [pc EXCEPT ![p] = "r_recover"]
          /\ loc' = loc
     ELSE /\ pc' = [pc EXCEPT ![p] = "idle"]
          /\ loc' = Returned(p, "void", "")
  /\ UNCHANGED <<store, clock, cfgTtl, op, arg, gh, quota, env, nOps, nSigWrites>>

\* await redis.set(stateKey, "running")  (recovery), then return
RegRecover(p) ==
  /\ pc[p] = "r_recover"
  /\ state' = "running"
  /\ pc' = [pc EXCEPT ![p] = "idle"]
  /\ loc' = Returned(p, "void", "")
  /\ gh' = GhWrite(p, "state")
  /\ UNCHANGED <<signal, desc, services, instances, clock, cfgTtl, op, arg, quota, env, nOps, nSigWrites>>

\* ------------------------------------------------------------------------
\* heartbeat(statusOverride?)  (called directly, or by the pause loop with
\* status "paused")
\* ------------------------------------------------------------------------
Override(p) == IF op[p] = "waitIfPaused" THEN "paused" ELSE arg[p]

\* const raw = await redis.get(instanceKey); parse; the status is the
\* override when there is one
HbGet(p) ==
  /\ pc[p] = "h_get"
  /\ loc' = [loc EXCEPT ![p].payload = ParsePayload(desc[InstOf[p]]),
                        ![p].status = Override(p)]
  /\ pc' = [pc EXCEPT ![p] = IF Override(p) = Nil THEN "h_get_state" ELSE "h_set"]
  /\ UNCHANGED <<store, clock, cfgTtl, op, arg, gh, quota, env, nOps, nSigWrites>>

\* status: (await getState())
HbGetState(p) ==
  /\ pc[p] = "h_get_state"
  /\ loc' = [loc EXCEPT ![p].status = GetStateOf(state)]
  /\ pc' = [pc EXCEPT ![p] = "h_set"]
  /\ UNCHANGED <<store, clock, cfgTtl, op, arg, gh, quota, env, nOps, nSigWrites>>

\* await redis.set(instanceKey, JSON.stringify(body), "EX", heartbeatTtl);
\* the pause loop goes on with applySignal()
HbSet(p) ==
  /\ pc[p] = "h_set"
  /\ desc' = [desc EXCEPT ![InstOf[p]] =
                Blob(HeartbeatBody(loc[p].payload, loc[p].now, loc[p].status),
                     FinalTtl(cfgTtl), clock)]
  /\ IF op[p] = "waitIfPaused"
     THEN /\ pc' = [pc EXCEPT ![p] = "a_get"]
          /\ loc' = loc
          /\ gh' = [q \in Procs |->
                      IF q = p THEN [gh[q] EXCEPT !.wrote = @ \cup {"desc"},
                                                 !.wroteAt = clock,
                                                 !.nApply = Count(@)]
                      ELSE Disturb(gh[q])]
     ELSE /\ pc' = [pc EXCEPT ![p] = "idle"]
          /\ loc' = Returned(p, "void", "")
          /\ gh' = GhWrite(p, "desc")
  /\ UNCHANGED <<state, signal, services, instances, clock, cfgTtl, op, arg, quota, env, nOps, nSigWrites>>

\* ------------------------------------------------------------------------
\* applySignal()  (called by shouldStop and waitIfPaused; both go on with
\* getState())
\* ------------------------------------------------------------------------
\* the caller's variable that receives the result: waitIfPaused drops the
\* result of its first call
SigAfter(p, result) == IF loc[p].phase = "first" THEN loc[p].sig ELSE result

\* const signal = await redis.get(signalKey); if (!signal) return "none";
\* switch (signal.toLowerCase())
ApplyGet(p) ==
  /\ pc[p] = "a_get"
  /\ IF SignalFalsy(signal)
     THEN /\ pc' = [pc EXCEPT ![p] = "g_get"]
          /\ loc' = [loc EXCEPT ![p].sig = SigAfter(p, "none")]
          /\ gh' = [gh EXCEPT ![p].applied = "none"]
     ELSE LET kind == SignalKind(ToLowerCase(signal)) IN
          /\ pc' = [pc EXCEPT ![p] = IF kind = "unknown" THEN "a_del" ELSE "a_set"]
          /\ loc' = [loc EXCEPT ![p].kind = kind]
          /\ gh' = [gh EXCEPT ![p].stopSeen = (kind = "stop")]
  /\ UNCHANGED <<store, clock, cfgTtl, op, arg, quota, env, nOps, nSigWrites>>

\* await redis.set(stateKey, "paused" | "running" | "stopping")
ApplySet(p) ==
  /\ pc[p] = "a_set"
  /\ state' = SignalState(loc[p].kind)
  /\ pc' = [pc EXCEPT ![p] = "a_del"]
  /\ gh' = GhWrite(p, "state")
  /\ UNCHANGED <<signal, desc, services, instances, clock, cfgTtl, op, arg, loc, quota, env, nOps, nSigWrites>>

\* await redis.del(signalKey); return the kind ("none" for an unknown one)
ApplyDel(p) ==
  /\ pc[p] = "a_del"
  /\ signal' = Del(signal)
  /\ pc' = [pc EXCEPT ![p] = "g_get"]
  /\ loc' = [loc EXCEPT
               ![p].sig = SigAfter(p, ReportedAfterDel(loc[p].kind, signal # NilSig)),
               ![p].kind = ""]
  /\ gh' = [q \in Procs |->
              IF q = p THEN [gh[q] EXCEPT
                               !.wrote = @ \cup {"signal"},
                               !.applied = ReportedAfterDel(loc[p].kind, signal # NilSig)]
              ELSE Disturb(gh[q])]
  /\ UNCHANGED <<state, desc, services, instances, clock, cfgTtl, op, arg, quota, env, nOps, nSigWrites>>

\* ------------------------------------------------------------------------
\* getState(), and what its callers do with the result
\* ------------------------------------------------------------------------
\* const state = await redis.get(stateKey), normalised; then, by caller:
\*   getState      returns it
\*   shouldStop    returns sig === "stop" || state === "stopping"
\*   waitIfPaused  first check: returns unless paused, else enters the loop
\*                 with heartbeat("paused")
\*   waitIfPaused  in the loop: breaks, or sleeps
GetState(p) ==
  /\ pc[p] = "g_get"
  /\ LET st == GetStateOf(state) IN
     CASE op[p] = "getState" ->
            /\ pc' = [pc EXCEPT ![p] = "idle"]
            /\ loc' = Returned(p, st, st)
            /\ gh' = gh
       [] op[p] = "shouldStop" ->
            /\ pc' = [pc EXCEPT ![p] = "idle"]
            /\ loc' = Returned(p, ShouldStopRet(loc[p].sig, st), st)
            /\ gh' = gh
       [] op[p] = "waitIfPaused" /\ loc[p].phase = "first" ->
            IF HotPathExit(st)
            THEN /\ pc' = [pc EXCEPT ![p] = "idle"]
                 /\ loc' = Returned(p, "void", st)
                 /\ gh' = gh
            ELSE /\ pc' = [pc EXCEPT ![p] = "h_get"]
                 /\ loc' = [loc EXCEPT ![p].st = st, ![p].phase = "loop", ![p].now = clock]
                 /\ gh' = [gh EXCEPT ![p].nHb = Count(@)]
       [] op[p] = "waitIfPaused" /\ loc[p].phase = "loop" ->
            IF LoopExit(loc[p].sig, st)
            THEN /\ pc' = [pc EXCEPT ![p] = "idle"]
                 /\ loc' = Returned(p, "void", st)
                 /\ gh' = gh
            ELSE /\ pc' = [pc EXCEPT ![p] = "sleep"]
                 /\ loc' = [loc EXCEPT ![p].st = st]
                 /\ gh' = gh
  /\ UNCHANGED <<store, clock, cfgTtl, op, arg, quota, env, nOps, nSigWrites>>

\* await sleep(finalConfig.pollMs); the next iteration starts with
\* heartbeat("paused")
Sleep(p) ==
  /\ pc[p] = "sleep"
  /\ env.live \/ gh[p].nSleep < MaxPolls
  /\ pc' = [pc EXCEPT ![p] = "h_get"]
  /\ loc' = [loc EXCEPT ![p].now = clock]
  /\ gh' = [gh EXCEPT ![p].nSleep = Count(@), ![p].nHb = Count(@)]
  /\ UNCHANGED <<store, clock, cfgTtl, op, arg, quota, env, nOps, nSigWrites>>

\* ------------------------------------------------------------------------
\* shutdown(reason?)
\* ------------------------------------------------------------------------
\* await redis.set(stateKey, "stopping")
ShutSetState(p) ==
  /\ pc[p] = "s_set_state"
  /\ state' = "stopping"
  /\ pc' = [pc EXCEPT ![p] = "s_get"]
  /\ gh' = GhWrite(p, "state")
  /\ UNCHANGED <<signal, desc, services, instances, clock, cfgTtl, op, arg, loc, quota, env, nOps, nSigWrites>>

\* const raw = await redis.get(instanceKey); parse; build the body (the
\* timestamps are taken here)
ShutGet(p) ==
  /\ pc[p] = "s_get"
  /\ loc' = [loc EXCEPT ![p].payload = ParsePayload(desc[InstOf[p]]), ![p].now = clock]
  /\ pc' = [pc EXCEPT ![p] = "s_put"]
  /\ UNCHANGED <<store, clock, cfgTtl, op, arg, gh, quota, env, nOps, nSigWrites>>

\* await redis.set(instanceKey, JSON.stringify(body), "EX", 10)
ShutPut(p) ==
  /\ pc[p] = "s_put"
  /\ desc' = [desc EXCEPT ![InstOf[p]] =
                Blob(ShutdownBody(loc[p].payload, loc[p].now, arg[p]), ShutdownTtl, clock)]
  /\ pc' = [pc EXCEPT ![p] = "s_srem"]
  /\ gh' = GhWrite(p, "desc")
  /\ UNCHANGED <<state, signal, services, instances, clock, cfgTtl, op, arg, loc, quota, env, nOps, nSigWrites>>

\* await redis.srem(instancesSetKey, instanceId); "Shutdown complete"
ShutSrem(p) ==
  /\ pc[p] = "s_srem"
  /\ instances' = instances \ {InstOf[p]}
  /\ pc' = [pc EXCEPT ![p] = "idle"]
  /\ loc' = Returned(p, "void", "")
  /\ gh' = [q \in Procs |->
              IF q = p THEN [gh[q] EXCEPT !.wrote = @ \cup {"instances"},
                                         !.log = @ \cup {"Shutdown complete"}]
              ELSE Disturb(gh[q])]
  /\ UNCHANGED <<state, signal, desc, services, clock, cfgTtl, op, arg, quota, env, nOps, nSigWrites>>

\* ------------------------------------------------------------------------
\* Termination hooks
\* ------------------------------------------------------------------------
\* register() of flow p's process has returned, so its process.on handlers
\* are installed
Installed(p) ==
  \/ op[p] = "register" /\ pc[p] = "idle" /\ loc[p].ret = "void"
  \/ gh[p].prev.op = "register" /\ gh[p].prev.ret = "void"

\* the process of main flow p receives SIGINT or SIGTERM; the handler, run
\* as flow h of the same process, calls shutdown(<name of the signal>)
Trigger(p, h) ==
  /\ InstOf[h] = InstOf[p] /\ h # p
  /\ Installed(p)
  /\ pc[h] = "idle"
  /\ nOps[h] < quota[h]
  /\ \E sig \in TriggerInputs :
       /\ op' = [op EXCEPT ![h] = "shutdown"]
       /\ arg' = [arg EXCEPT ![h] = sig]
  /\ pc' = [pc EXCEPT ![h] = FirstPc("shutdown")]
  /\ loc' = [loc EXCEPT ![h] = [LocInit EXCEPT !.now = clock]]
  /\ gh' = [gh EXCEPT
              ![h] = [GhInit EXCEPT !.preState = state, !.preSignal = signal,
                                    !.solo = TRUE, !.wroteAt = gh[h].wroteAt],
              ![p].hooked = /\ op[p] = "waitIfPaused"
                            /\ loc[p].phase = "loop"
                            /\ pc[p] # "idle"]
  /\ nOps' = [nOps EXCEPT ![h] = @ + 1]
  /\ UNCHANGED <<store, clock, cfgTtl, quota, env, nSigWrites>>

\* ------------------------------------------------------------------------
\* Foreign writes to the instance key
\* ------------------------------------------------------------------------
\* a value JSON.parse rejects, stored without expiry (it outlives the horizon)
Garbage ==
  <<[json |-> FALSE, body |-> RegisterPayload(NoTime), ttl |-> 0,
     exp |-> env.maxTime + env.step]>>

\* something other than the controller overwrites instance i's key
Corrupt(i) ==
  /\ env.corrupts > 0
  /\ desc[i] # Garbage
  /\ desc' = [desc EXCEPT ![i] = Garbage]
  /\ env' = [env EXCEPT !.corrupts = @ - 1]
  /\ gh' = [q \in Procs |-> Disturb(gh[q])]
  /\ UNCHANGED <<state, signal, services, instances, clock, cfgTtl, flow, quota, nOps, nSigWrites>>

\* ------------------------------------------------------------------------
\* Store failures
\* ------------------------------------------------------------------------
\* The store command flow p waits for is rejected and has no effect.
\* shutdown logs the error and "Shutdown complete" and returns; in every
\* other method the rejection propagates to the caller.
Fail(p) ==
  /\ pc[p] \notin {"idle", "sleep"}
  /\ env.fails > 0
  /\ env' = [env EXCEPT !.fails = @ - 1]
  /\ pc' = [pc EXCEPT ![p] = "idle"]
  /\ IF OnFailure(op[p]) = "caught"
     THEN /\ loc' = Returned(p, "void", "")
          /\ gh' = [gh EXCEPT ![p].failedAt = pc[p],
                              ![p].log = @ \cup {"Error during shutdown", "Shutdown complete"}]
     ELSE /\ loc' = Returned(p, "error", "")
          /\ gh' = [gh EXCEPT ![p].failedAt = pc[p]]
  /\ UNCHANGED <<store, clock, cfgTtl, op, arg, quota, nOps, nSigWrites>>

\* ------------------------------------------------------------------------
\* Specification
\* ------------------------------------------------------------------------
Next ==
  \/ Tick
  \/ OperatorSignal
  \/ \E p \in Procs : Call(p)
  \/ \E p \in Procs : RegSaddServices(p)
  \/ \E p \in Procs : RegSaddInstances(p)
  \/ \E p \in Procs : RegSetDesc(p)
  \/ \E p \in Procs : RegGetState(p)
  \/ \E p \in Procs : RegInitState(p)
  \/ \E p \in Procs : RegGetSignal(p)
  \/ \E p \in Procs : RegRecover(p)
  \/ \E p \in Procs : HbGet(p)
  \/ \E p \in Procs : HbGetState(p)
  \/ \E p \in Procs : HbSet(p)
  \/ \E p \in Procs : ApplyGet(p)
  \/ \E p \in Procs : ApplySet(p)
  \/ \E p \in Procs : ApplyDel(p)
  \/ \E p \in Procs : GetState(p)
  \/ \E p \in Procs : Sleep(p)
  \/ \E p \in Procs : ShutSetState(p)
  \/ \E p \in Procs : ShutGet(p)
  \/ \E p \in Procs : ShutPut(p)
  \/ \E p \in Procs : ShutSrem(p)

Spec == Init /\ [][Next]_vars

\* One controller, one call, and a store that rejects one command.
InitFail ==
  /\ state \in {Nil, "paused", "stopping"}
  /\ signal = NilSig
  /\ desc = [i \in Inst |-> <<>>]
  /\ services = {}
  /\ instances = {}
  /\ clock = 0
  /\ cfgTtl = 0
  /\ pc = [p \in Procs |-> "idle"]
  /\ op = [p \in Procs |-> ""]
  /\ arg = [p \in Procs |-> Nil]
  /\ loc = [p \in Procs |-> LocInit]
  /\ gh = [p \in Procs |-> GhInit]
  /\ quota = [p \in Procs |-> IF p = "a" THEN 1 ELSE 0]
  /\ env = [EnvInit EXCEPT !.fails = 1]
  /\ nOps = [p \in Procs |-> 0]
  /\ nSigWrites = 0

NextFail ==
  \/ Next
  \/ \E p \in Procs : Fail(p)

SpecFail == InitFail /\ [][NextFail]_vars

\* One registered instance with two flows of control: the main flow "a" and
\* a timer or termination hook "c" (setInterval heartbeat, SIGINT/SIGTERM
\* handlers).  No signal is written.
InitSame ==
  /\ state \in {Nil, "paused", "stopping"}
  /\ signal = NilSig
  /\ desc = [i \in Inst |->
               IF i = InstOf["a"] THEN Blob(RegisterPayload(0), FinalTtl(0), 0) ELSE <<>>]
  /\ services = {ServiceName}
  /\ instances = {InstOf["a"]}
  /\ clock = 0
  /\ cfgTtl = 0
  /\ pc = [p \in Procs |-> "idle"]
  /\ op = [p \in Procs |-> ""]
  /\ arg = [p \in Procs |-> Nil]
  /\ loc = [p \in Procs |-> LocInit]
  /\ gh = [p \in Procs |-> GhInit]
  /\ quota = [p \in Procs |-> IF p \in {"a", "c"} THEN 1 ELSE 0]
  /\ env = [EnvInit EXCEPT
              !.menu = [p \in Procs |->
                          IF p = "c" THEN {"heartbeat", "shutdown"}
                          ELSE {"register", "heartbeat", "waitIfPaused", "shutdown"}]]
  /\ nOps = [p \in Procs |-> 0]
  /\ nSigWrites = 0

NextSame ==
  \/ Tick
  \/ \E p \in Procs : Call(p)
  \/ \E p \in Procs : RegSaddServices(p)
  \/ \E p \in Procs : RegSaddInstances(p)
  \/ \E p \in Procs : RegSetDesc(p)
  \/ \E p \in Procs : RegGetState(p)
  \/ \E p \in Procs : RegInitState(p)
  \/ \E p \in Procs : RegGetSignal(p)
  \/ \E p \in Procs : RegRecover(p)
  \/ \E p \in Procs : HbGet(p)
  \/ \E p \in Procs : HbGetState(p)
  \/ \E p \in Procs : HbSet(p)
  \/ \E p \in Procs : ApplyGet(p)
  \/ \E p \in Procs : GetState(p)
  \/ \E p \in Procs : Sleep(p)
  \/ \E p \in Procs : ShutSetState(p)
  \/ \E p \in Procs : ShutGet(p)
  \/ \E p \in Procs : ShutPut(p)
  \/ \E p \in Procs : ShutSrem(p)

SpecSame == InitSame /\ [][NextSame]_vars

\* One instance that registers and heartbeats while time passes in steps of
\* the shortest TTL, up to a full default TTL after a full custom TTL; its
\* key may be overwritten once from outside.
InitTtl ==
  /\ state \in {Nil, "paused", "bogus"}
  /\ signal = NilSig
  /\ desc = [i \in Inst |-> <<>>]
  /\ services = {}
  /\ instances = {}
  /\ clock = 0
  /\ cfgTtl \in {0, CustomTtl}
  /\ pc = [p \in Procs |-> "idle"]
  /\ op = [p \in Procs |-> ""]
  /\ arg = [p \in Procs |-> Nil]
  /\ loc = [p \in Procs |-> LocInit]
  /\ gh = [p \in Procs |-> GhInit]
  /\ quota = [p \in Procs |-> IF p = "a" THEN MaxOps ELSE 0]
  /\ env = [EnvInit EXCEPT
              !.menu = [p \in Procs |-> {"register", "heartbeat"}],
              !.step = ShutdownTtl,
              !.maxTime = CustomTtl + DefaultHeartbeatTtl,
              !.corrupts = 1]
  /\ nOps = [p \in Procs |-> 0]
  /\ nSigWrites = 0

NextTtl ==
  \/ Tick
  \/ \E i \in {InstOf["a"]} : Corrupt(i)
  \/ \E p \in Procs : Call(p)
  \/ \E p \in Procs : RegSaddServices(p)
  \/ \E p \in Procs : RegSaddInstances(p)
  \/ \E p \in Procs : RegSetDesc(p)
  \/ \E p \in Procs : RegGetState(p)
  \/ \E p \in Procs : RegInitState(p)
  \/ \E p \in Procs : RegGetSignal(p)
  \/ \E p \in Procs : HbGet(p)
  \/ \E p \in Procs : HbGetState(p)
  \/ \E p \in Procs : HbSet(p)

SpecTtl == InitTtl /\ [][NextTtl]_vars

\* Two instances of the service poll once each while an operator writes a
\* signal.
InitConc ==
  /\ state \in {"running", "paused"}
  /\ signal = NilSig
  /\ desc = [i \in Inst |-> <<>>]
  /\ services = {}
  /\ instances = {}
  /\ clock = 0
  /\ cfgTtl = 0
  /\ pc = [p \in Procs |-> "idle"]
  /\ op = [p \in Procs |-> ""]
  /\ arg = [p \in Procs |-> Nil]
  /\ loc = [p \in Procs |-> LocInit]
  /\ gh = [p \in Procs |-> GhInit]
  /\ quota = [p \in Procs |-> IF p \in {"a", "b"} THEN 1 ELSE 0]
  /\ env = [EnvInit EXCEPT
              !.menu = [p \in Procs |-> {"shouldStop", "waitIfPaused"}]]
  /\ nOps = [p \in Procs |-> 0]
  /\ nSigWrites = 0

NextConc ==
  \/ OperatorSignal
  \/ \E p \in Procs : Call(p)
  \/ \E p \in Procs : HbGet(p)
  \/ \E p \in Procs : HbSet(p)
  \/ \E p \in Procs : ApplyGet(p)
  \/ \E p \in Procs : ApplySet(p)
  \/ \E p \in Procs : ApplyDel(p)
  \/ \E p \in Procs : GetState(p)
  \/ \E p \in Procs : Sleep(p)

SpecConc == InitConc /\ [][NextConc]_vars

\* Three instances of the service: one registers while the two others poll
\* shouldStop() and an operator writes one signal.
InitReg ==
  /\ state \in {Nil, "running", "stopping"}
  /\ signal = NilSig
  /\ desc = [i \in Inst |-> <<>>]
  /\ services = {}
  /\ instances = {}
  /\ clock = 0
  /\ cfgTtl = 0
  /\ pc = [p \in Procs |-> "idle"]
  /\ op = [p \in Procs |-> ""]
  /\ arg = [p \in Procs |-> Nil]
  /\ loc = [p \in Procs |-> LocInit]
  /\ gh = [p \in Procs |-> GhInit]
  /\ quota = [p \in Procs |-> IF p = "c" THEN 0 ELSE 1]
  /\ env = [EnvInit EXCEPT
              !.menu = [p \in Procs |->
                          IF p = "a" THEN {"register"} ELSE {"shouldStop"}],
              !.maxSigWrites = 1]
  /\ nOps = [p \in Procs |-> 0]
  /\ nSigWrites = 0

NextReg ==
  \/ OperatorSignal
  \/ \E p \in Procs : Call(p)
  \/ \E p \in Procs : RegSaddServices(p)
  \/ \E p \in Procs : RegSaddInstances(p)
  \/ \E p \in Procs : RegSetDesc(p)
  \/ \E p \in Procs : RegGetState(p)
  \/ \E p \in Procs : RegInitState(p)
  \/ \E p \in Procs : RegGetSignal(p)
  \/ \E p \in Procs : RegRecover(p)
  \/ \E p \in Procs : ApplyGet(p)
  \/ \E p \in Procs : ApplySet(p)
  \/ \E p \in Procs : ApplyDel(p)
  \/ \E p \in Procs : GetState(p)

SpecReg == InitReg /\ [][NextReg]_vars

\* the runtime resumes flow p once the store command or the timer it awaits
\* has completed
Resume(p) ==
  \/ HbGet(p)
  \/ HbSet(p)
  \/ ApplyGet(p)
  \/ ApplySet(p)
  \/ ApplyDel(p)
  \/ GetState(p)
  \/ Sleep(p)

\* A paused service: one instance calls waitIfPaused(), whose loop is not
\* cut off, while an operator writes signals.  Every awaited command and
\* timer completes.
InitLive ==
  /\ state = "paused"
  /\ signal = NilSig
  /\ desc = [i \in Inst |-> <<>>]
  /\ services = {}
  /\ instances = {}
  /\ clock = 0
  /\ cfgTtl = 0
  /\ pc = [p \in Procs |-> "idle"]
  /\ op = [p \in Procs |-> ""]
  /\ arg = [p \in Procs |-> Nil]
  /\ loc = [p \in Procs |-> LocInit]
  /\ gh = [p \in Procs |-> GhInit]
  /\ quota = [p \in Procs |-> IF p = "a" THEN 1 ELSE 0]
  /\ env = [EnvInit EXCEPT
              !.menu = [p \in Procs |-> {"waitIfPaused"}],
              !.maxSigWrites = MaxSignalWrites + 1,
              !.live = TRUE]
  /\ nOps = [p \in Procs |-> 0]
  /\ nSigWrites = 0

SpecLive ==
  InitLive /\ [][NextConc]_vars /\ \A p \in Procs : WF_vars(Resume(p))

\* One process: its main flow registers and calls waitIfPaused(), whose
\* loop is not cut off; the process receives one termination signal, and
\* an operator writes signals.
InitHook ==
  /\ state \in {Nil, "paused", "stopping"}
  /\ signal = NilSig
  /\ desc = [i \in Inst |-> <<>>]
  /\ services = {}
  /\ instances = {}
  /\ clock = 0
  /\ cfgTtl = 0
  /\ pc = [p \in Procs |-> "idle"]
  /\ op = [p \in Procs |-> ""]
  /\ arg = [p \in Procs |-> Nil]
  /\ loc = [p \in Procs |-> LocInit]
  /\ gh = [p \in Procs |-> GhInit]
  /\ quota = [p \in Procs |-> IF p = "a" THEN MaxOps ELSE IF p = "c" THEN 1 ELSE 0]
  /\ env = [EnvInit EXCEPT
              !.menu = [p \in Procs |->
                          IF p = "a" THEN {"register", "waitIfPaused"} ELSE {}],
              !.live = TRUE]
  /\ nOps = [p \in Procs |-> 0]
  /\ nSigWrites = 0

NextHook ==
  \/ OperatorSignal
  \/ Trigger("a", "c")
  \/ \E p \in Procs : Call(p)
  \/ \E p \in Procs : RegSaddServices(p)
  \/ \E p \in Procs : RegSaddInstances(p)
  \/ \E p \in Procs : RegSetDesc(p)
  \/ \E p \in Procs : RegGetState(p)
  \/ \E p \in Procs : RegInitState(p)
  \/ \E p \in Procs : RegGetSignal(p)
  \/ \E p \in Procs : RegRecover(p)
  \/ \E p \in Procs : HbGet(p)
  \/ \E p \in Procs : HbSet(p)
  \/ \E p \in Procs : ApplyGet(p)
  \/ \E p \in Procs : ApplySet(p)
  \/ \E p \in Procs : ApplyDel(p)
  \/ \E p \in Procs : GetState(p)
  \/ \E p \in Procs : Sleep(p)
  \/ \E p \in Procs : ShutSetState(p)
  \/ \E p \in Procs : ShutGet(p)
  \/ \E p \in Procs : ShutPut(p)
  \/ \E p \in Procs : ShutSrem(p)

\* the commands of a shutdown() that the runtime completes
ShutdownStep(p) ==
  \/ ShutSetState(p)
  \/ ShutGet(p)
  \/ ShutPut(p)
  \/ ShutSrem(p)

SpecHook ==
  /\ InitHook /\ [][NextHook]_vars
  /\ \A p \in Procs : WF_vars(Resume(p)) /\ WF_vars(ShutdownStep(p))

\* ------------------------------------------------------------------------
\* Properties
\* ------------------------------------------------------------------------
\* flow p has returned from method o and has started nothing since
Done(p, o) == pc[p] = "idle" /\ op[p] = o

\* the first applySignal() of flow p's shouldStop/waitIfPaused has just
\* returned and nobody else wrote to the store since the method was called
Applied(p) ==
  /\ pc[p] = "g_get"
  /\ op[p] \in {"shouldStop", "waitIfPaused"}
  /\ gh[p].nApply = 1
  /\ gh[p].solo

PauseForms == {<<"p", "a", "u", "s", "e">>, <<"P", "A", "U", "S", "E">>}

ResumeForms == {<<"r", "e", "s", "u", "m", "e">>, <<"R", "e", "s", "u", "m", "e">>}

StopForms == {<<"s", "t", "o", "p">>, <<"S", "T", "O", "P">>}

\* values that can be present under the signal key and are no signal
UnknownForms == (SignalInputs \ PauseForms) \ (ResumeForms \cup StopForms)

\* C1: a pending signal that is pause, resume or stop in any letter case is
\* applied by one signal application run alone: the state key becomes paused,
\* running or stopping, the signal key is gone, and the application reports
\* pause, resume or stop.
C1_SignalApplied ==
  \A p \in Procs : Applied(p) =>
    /\ gh[p].preSignal \in PauseForms =>
         state = "paused" /\ signal = NilSig /\ gh[p].applied = "pause"
    /\ gh[p].preSignal \in ResumeForms =>
         state = "running" /\ signal = NilSig /\ gh[p].applied = "resume"
    /\ gh[p].preSignal \in StopForms =>
         state = "stopping" /\ signal = NilSig /\ gh[p].applied = "stop"

C1_Witness ==
  \E p \in Procs :
    /\ Applied(p)
    /\ gh[p].preSignal = <<"P", "A", "U", "S", "E">>
    /\ gh[p].preState = "running"
    /\ state = "paused"
    /\ gh[p].applied = "pause"

\* C2: register() run alone on state "stopping" leaves "running" when no
\* signal is pending, and leaves "stopping" (and the signal pending) when
\* the pending signal is "stop".
C2_StaleRecovery ==
  \A p \in Procs : (Done(p, "register") /\ gh[p].solo /\ gh[p].preState = "stopping") =>
    /\ gh[p].preSignal = NilSig => state = "running"
    /\ gh[p].preSignal = <<"s", "t", "o", "p">> =>
         state = "stopping" /\ signal = <<"s", "t", "o", "p">>

C2_Witness ==
  \E p \in Procs :
    /\ Done(p, "register") /\ gh[p].solo
    /\ gh[p].preState = "stopping"
    /\ gh[p].preSignal = <<"s", "t", "o", "p">>
    /\ state = "stopping"

\* C3: once waitIfPaused() has read a stop signal and nobody else writes to
\* the store, it applies it, reads the state and returns: it neither sleeps
\* nor starts another iteration; a shouldStop() the flow calls next, with
\* still no other write, returns true.
C3_StopEndsWait ==
  \A p \in Procs :
    /\ (op[p] = "waitIfPaused" /\ gh[p].stopSeen) =>
         pc[p] \in {"a_set", "a_del", "g_get", "idle"}
    /\ (Done(p, "shouldStop") /\ gh[p].stopSeen /\ gh[p].prev.op = "waitIfPaused") =>
         loc[p].ret = "true"

C3_Witness ==
  \E p \in Procs :
    /\ Done(p, "shouldStop") /\ gh[p].stopSeen
    /\ gh[p].prev.op = "waitIfPaused"
    /\ gh[p].prev.nHb >= 1
    /\ gh[p].prev.applied = "stop"
    /\ loc[p].ret = "true"

InLoop(p) == op[p] = "waitIfPaused" /\ loc[p].phase = "loop" /\ pc[p] # "idle"

\* C4: in the pause loop an iteration is heartbeat (status paused), signal
\* application, state read, sleep; after the state read the loop sleeps and
\* iterates again when the state read is paused and the signal applied was
\* not stop, and waitIfPaused() returns when the state read is running.
C4_PauseLoop ==
  [][\A p \in Procs : (InLoop(p) /\ pc'[p] # pc[p]) =>
        /\ pc[p] = "sleep" => pc'[p] = "h_get"
        /\ pc[p] = "h_get" => pc'[p] = "h_set"
        /\ pc[p] = "h_set" =>
             /\ pc'[p] = "a_get"
             /\ desc'[InstOf[p]] # <<>>
             /\ desc'[InstOf[p]][1].body.status = "paused"
        /\ pc[p] = "a_get" => pc'[p] \in {"a_set", "a_del", "g_get"}
        /\ pc[p] = "a_set" => pc'[p] = "a_del"
        /\ pc[p] = "a_del" => pc'[p] = "g_get"
        /\ pc[p] = "g_get" =>
             /\ (state = "paused" /\ loc[p].sig # "stop") => pc'[p] = "sleep"
             /\ state \notin {"paused", "stopping"} => pc'[p] = "idle"
    ]_vars

C4_Witness ==
  \E p \in Procs :
    /\ Done(p, "waitIfPaused")
    /\ loc[p].phase = "loop"
    /\ gh[p].nSleep >= 1
    /\ loc[p].sig = "resume"
    /\ loc[p].st = "running"

\* C5: shouldStop() runs signal application once, never heartbeats or
\* sleeps, and returns true exactly when that application returned stop or
\* the state it read afterwards is stopping; run alone, that is exactly when
\* the pending signal was a stop, or was no pause/resume/stop signal while
\* the state was stopping.
C5_ShouldStop ==
  \A p \in Procs : Done(p, "shouldStop") =>
    /\ gh[p].nApply = 1 /\ gh[p].nSleep = 0 /\ gh[p].nHb = 0
    /\ loc[p].ret \in {"true", "false"}
    /\ loc[p].ret = "true" <=> (gh[p].applied = "stop" \/ loc[p].st = "stopping")
    /\ gh[p].solo =>
         (loc[p].ret = "true" <=>
            \/ gh[p].preSignal \in StopForms
            \/ /\ gh[p].preSignal \notin (PauseForms \cup ResumeForms)
               /\ gh[p].preState = "stopping")

C5_Witness ==
  \E p \in Procs :
    /\ Done(p, "shouldStop") /\ gh[p].solo
    /\ gh[p].preSignal = NilSig
    /\ gh[p].preState = "stopping"
    /\ loc[p].ret = "true"

\* C6: after shutdown(reason) run alone, the state key is stopping, the
\* instance key holds a descriptor with status stopping, the given reason
\* (manual when omitted) and TTL 10 whatever the heartbeat TTL is, and the
\* instance id is not in the instances set.
C6_Shutdown ==
  \A p \in Procs : (Done(p, "shutdown") /\ gh[p].solo) =>
    /\ state = "stopping"
    /\ desc[InstOf[p]] # <<>>
    /\ desc[InstOf[p]][1].body.status = "stopping"
    /\ desc[InstOf[p]][1].body.stopReason = (IF arg[p] = Nil THEN "manual" ELSE arg[p])
    /\ desc[InstOf[p]][1].ttl = 10
    /\ InstOf[p] \notin instances

C6_Witness ==
  \E p \in Procs :
    /\ Done(p, "shutdown") /\ gh[p].solo
    /\ gh[p].prev.op = "register"
    /\ cfgTtl = CustomTtl
    /\ arg[p] = "SIGTERM"
    /\ desc[InstOf[p]] # <<>>
    /\ desc[InstOf[p]][1].ttl = 10
    /\ InstOf[p] \notin instances

\* C7: getState() run alone returns the stored state when it is running,
\* paused or stopping and running for any other stored value or an absent
\* key, writes nothing, and returns the same value as a getState() that ran
\* just before it with no write in between.
C7_GetState ==
  \A p \in Procs : (Done(p, "getState") /\ gh[p].solo) =>
    /\ loc[p].ret = (IF gh[p].preState \in {"running", "paused", "stopping"}
                     THEN gh[p].preState ELSE "running")
    /\ gh[p].wrote = {}
    /\ state = gh[p].preState
    /\ (gh[p].prev.op = "getState" /\ gh[p].prev.solo) => loc[p].ret = gh[p].prev.ret

C7_Witness ==
  \E p \in Procs :
    /\ Done(p, "getState") /\ gh[p].solo
    /\ gh[p].preState = "bogus"
    /\ loc[p].ret = "running"
    /\ gh[p].prev.op = "getState" /\ gh[p].prev.solo

\* C8: a signal application that follows another one of the same flow with
\* no other write in between finds no signal: it reports none, writes neither
\* the state key nor the signal key, and the state is still the one the first
\* application wrote.
C8_ConsumedOnce ==
  \A p \in Procs :
    (/\ Applied(p)
     /\ gh[p].prev.op \in {"shouldStop", "waitIfPaused"}
     /\ gh[p].prev.solo) =>
      /\ gh[p].applied = "none"
      /\ gh[p].wrote \cap {"state", "signal"} = {}
      /\ gh[p].prev.applied = "pause" => state = "paused"
      /\ gh[p].prev.applied = "resume" => state = "running"
      /\ gh[p].prev.applied = "stop" => state = "stopping"

C8_Witness ==
  \E p \in Procs :
    /\ Applied(p)
    /\ gh[p].prev.op = "shouldStop" /\ gh[p].prev.solo
    /\ gh[p].prev.applied = "pause"
    /\ gh[p].applied = "none"
    /\ state = "paused"

\* C9: a value present under the signal key that is not pause, resume or
\* stop in any letter case is deleted by one signal application run alone,
\* which reports none and leaves the state key as it was.
C9_UnknownDeleted ==
  \A p \in Procs : (Applied(p) /\ gh[p].preSignal \in UnknownForms) =>
    /\ signal = NilSig
    /\ gh[p].applied = "none"
    /\ state = gh[p].preState

\* C10: after register() run alone the service name is in the services set,
\* the instance id in the instances set, the instance key holds a descriptor
\* with status running, startedAt = lastSeen and the configured heartbeat
\* TTL (30 when not configured); an unset state now reads running and a
\* paused state is still paused.
C10_Register ==
  \A p \in Procs : (Done(p, "register") /\ gh[p].solo) =>
    /\ ServiceName \in services
    /\ InstOf[p] \in instances
    /\ desc[InstOf[p]] # <<>>
    /\ desc[InstOf[p]][1].body.status = "running"
    /\ desc[InstOf[p]][1].body.startedAt = desc[InstOf[p]][1].body.lastSeen
    /\ desc[InstOf[p]][1].ttl = (IF cfgTtl = 0 THEN 30 ELSE cfgTtl)
    /\ gh[p].preState = Nil => state = "running"
    /\ gh[p].preState = "paused" => state = "paused"

C10_Witness ==
  \E p \in Procs :
    /\ Done(p, "register") /\ gh[p].solo
    /\ gh[p].preState = Nil
    /\ state = "running"
    /\ cfgTtl = CustomTtl
    /\ desc[InstOf[p]] # <<>>
    /\ desc[InstOf[p]][1].ttl = CustomTtl

\* C17: register() run alone on state "stopping" leaves "stopping" when the
\* pending signal is stop in any letter case.
C17_StopAnyCase ==
  \A p \in Procs :
    (/\ Done(p, "register") /\ gh[p].solo
     /\ gh[p].preState = "stopping"
     /\ gh[p].preSignal \in StopForms) =>
      state = "stopping"

ValidStates == {"running", "paused", "stopping"}

\* C20: every write of a controller method to the state key writes running,
\* paused or stopping (so a state key that starts absent or valid never holds
\* anything else), and every descriptor a method writes has one of the three
\* as status, also when the state key holds another value.
C20_ValidStates ==
  [][/\ state' # state => state' \in ValidStates
     /\ \A i \in Inst :
          (desc'[i] # desc[i] /\ desc'[i] # <<>>) =>
             desc'[i][1].body.status \in ValidStates
    ]_vars

C20_Witness ==
  \E p \in Procs :
    /\ Done(p, "heartbeat")
    /\ arg[p] = Nil
    /\ gh[p].solo
    /\ state = "bogus"
    /\ desc[InstOf[p]] # <<>>
    /\ desc[InstOf[p]][1].body.status = "running"

\* C12: shutdown() returns normally whichever of its store commands is
\* rejected: it logs the error and "Shutdown complete", and the commands
\* after the rejected one are not issued.
C12_ShutdownNeverFails ==
  \A p \in Procs : (op[p] = "shutdown" /\ gh[p].failedAt # "") =>
    /\ pc[p] = "idle"
    /\ loc[p].ret = "void"
    /\ gh[p].log = {"Error during shutdown", "Shutdown complete"}
    /\ gh[p].failedAt = "s_set_state" => gh[p].wrote = {}
    /\ gh[p].failedAt = "s_get" => gh[p].wrote = {"state"}
    /\ gh[p].failedAt = "s_put" => gh[p].wrote = {"state"}
    /\ gh[p].failedAt = "s_srem" => gh[p].wrote = {"state", "desc"}

C12_Witness ==
  \E p \in Procs :
    /\ Done(p, "shutdown")
    /\ gh[p].failedAt = "s_put"
    /\ loc[p].ret = "void"
    /\ "Shutdown complete" \in gh[p].log
    /\ desc[InstOf[p]] = <<>>

\* C13: a rejected store command of register(), heartbeat(), getState(),
\* shouldStop() or waitIfPaused() ends the call with a failure: no later
\* store command of the call is issued, and what the call wrote before
\* stays in the store.
C13_FailurePropagates ==
  \A p \in Procs : (op[p] # "shutdown" /\ gh[p].failedAt # "") =>
    /\ pc[p] = "idle"
    /\ loc[p].ret = "error"
    /\ (op[p] = "register" /\ gh[p].failedAt = "r_sadd_services") => gh[p].wrote = {}
    /\ (op[p] = "register" /\ gh[p].failedAt = "r_sadd_instances") =>
         gh[p].wrote = {"services"}
    /\ (op[p] = "register" /\ gh[p].failedAt = "r_set_desc") =>
         gh[p].wrote = {"services", "instances"}
    /\ (op[p] = "register" /\ gh[p].failedAt = "r_get_state") =>
         gh[p].wrote = {"services", "instances", "desc"}
    /\ (op[p] = "heartbeat") => gh[p].wrote = {}
    /\ (op[p] = "shouldStop" /\ gh[p].failedAt = "a_del" /\ gh[p].solo
          /\ gh[p].preSignal \in StopForms) =>
         gh[p].wrote = {"state"} /\ state = "stopping" /\ signal = gh[p].preSignal
    /\ "services" \in gh[p].wrote => ServiceName \in services
    /\ ("instances" \in gh[p].wrote /\ gh[p].solo) => InstOf[p] \in instances
    /\ ("desc" \in gh[p].wrote /\ gh[p].solo /\ op[p] = "register") =>
         desc[InstOf[p]] # <<>>

C13_Witness ==
  \E p \in Procs :
    /\ Done(p, "register")
    /\ gh[p].failedAt = "r_get_state"
    /\ loc[p].ret = "error"
    /\ InstOf[p] \in instances
    /\ desc[InstOf[p]] # <<>>
    /\ state = Nil

\* C15: between two consecutive writes of an instance's descriptor the
\* stored lastSeen does not decrease, whatever the interleaving of the
\* instance's register, heartbeat (timer-driven and inside waitIfPaused)
\* and shutdown calls.
C15_LastSeenMonotone ==
  [][\A i \in Inst :
       (desc[i] # <<>> /\ desc'[i] # <<>>) =>
          desc'[i][1].body.lastSeen >= desc[i][1].body.lastSeen
    ]_vars

\* C19: after two shutdown() calls on one instance, one after the other or
\* interleaved, and nothing else, the store is in the terminal state of a
\* single call.
C19_ShutdownTwice ==
  (/\ Done("a", "shutdown") /\ Done("c", "shutdown")
   /\ nOps["a"] = 1 /\ nOps["c"] = 1 /\ nOps["b"] = 0 /\ nSigWrites = 0) =>
    /\ state = "stopping"
    /\ desc[InstOf["a"]] # <<>>
    /\ desc[InstOf["a"]][1].body.status = "stopping"
    /\ desc[InstOf["a"]][1].ttl = 10
    /\ desc[InstOf["a"]][1].body.stopReason \in
         { (IF arg["a"] = "<nil>" THEN "manual" ELSE arg["a"]),
           (IF arg["c"] = "<nil>" THEN "manual" ELSE arg["c"]) }
    /\ InstOf["a"] \notin instances

\* the two calls interleaved: the hook's descriptor write is the last one
\* while the explicit call's reason differs
C19_Witness ==
  /\ Done("a", "shutdown") /\ Done("c", "shutdown")
  /\ nOps["a"] = 1 /\ nOps["c"] = 1
  /\ ~gh["a"].solo /\ ~gh["c"].solo
  /\ arg["a"] = "<nil>" /\ arg["c"] = "SIGTERM"
  /\ desc[InstOf["a"]] # <<>>
  /\ desc[InstOf["a"]][1].body.stopReason = "SIGTERM"
  /\ state = "stopping"
  /\ InstOf["a"] \notin instances

\* C16: once register() has written the descriptor, the key is present
\* while less than the configured heartbeat TTL has passed since the last
\* descriptor write of register() or heartbeat(); after a full TTL without
\* a write it is absent and the instance id is still in the instances set.
C16_TtlLiveness ==
  \A p \in Procs :
    (/\ env.corrupts > 0
     /\ gh[p].wroteAt # -1
     /\ \/ op[p] = "register" /\ "desc" \in gh[p].wrote
        \/ gh[p].prev.op = "register") =>
      /\ clock < gh[p].wroteAt + (IF cfgTtl = 0 THEN 30 ELSE cfgTtl) =>
           desc[InstOf[p]] # <<>>
      /\ clock >= gh[p].wroteAt + (IF cfgTtl = 0 THEN 30 ELSE cfgTtl) =>
           desc[InstOf[p]] = <<>> /\ InstOf[p] \in instances

\* a heartbeat kept the key beyond the TTL of the registration, and the key
\* then expired a custom TTL after the heartbeat
C16_Witness ==
  \E p \in Procs :
    /\ Done(p, "heartbeat") /\ gh[p].prev.op = "register"
    /\ env.corrupts > 0
    /\ cfgTtl = 60
    /\ gh[p].wroteAt > 0
    /\ clock >= gh[p].wroteAt + 60
    /\ desc[InstOf[p]] = <<>>
    /\ InstOf[p] \in instances

\* C11: the steps of heartbeat(statusOverride?) change nothing but the
\* instance's own descriptor.  The descriptor it writes keeps the startedAt
\* of the blob it read when that blob parses and otherwise takes the time
\* of the call, has lastSeen = the time of the call, status = the override
\* when given and otherwise the state key as getState() reports it, and
\* expires one configured heartbeat TTL after the write.
C11_HeartbeatFrame ==
  [][\A p \in Procs :
       (op[p] = "heartbeat" /\ pc[p] \in {"h_get", "h_get_state", "h_set"}
          /\ pc'[p] # pc[p]) =>
         /\ state' = state /\ signal' = signal
         /\ services' = services /\ instances' = instances
         /\ \A i \in Inst : (i # InstOf[p] \/ pc[p] # "h_set") => desc'[i] = desc[i]
         /\ pc[p] = "h_get" =>
              loc'[p].payload.startedAt =
                 (IF desc[InstOf[p]] = <<>> \/ ~desc[InstOf[p]][1].json THEN -1
                  ELSE desc[InstOf[p]][1].body.startedAt)
         /\ pc[p] = "h_get_state" =>
              loc'[p].status = (IF state \in {"paused", "stopping"} THEN state
                                ELSE "running")
         /\ pc[p] = "h_set" =>
              /\ desc'[InstOf[p]] # <<>>
              /\ desc'[InstOf[p]][1].json
              /\ desc'[InstOf[p]][1].body.startedAt =
                   (IF loc[p].payload.startedAt = -1 THEN loc[p].now
                    ELSE loc[p].payload.startedAt)
              /\ desc'[InstOf[p]][1].body.lastSeen = loc[p].now
              /\ arg[p] # "<nil>" => desc'[InstOf[p]][1].body.status = arg[p]
              /\ arg[p] = "<nil>" => desc'[InstOf[p]][1].body.status = loc[p].status
              /\ desc'[InstOf[p]][1].ttl = (IF cfgTtl = 0 THEN 30 ELSE cfgTtl)
              /\ desc'[InstOf[p]][1].exp = clock + (IF cfgTtl = 0 THEN 30 ELSE cfgTtl)
    ]_vars

\* a heartbeat without override, called at a later time on a key that holds
\* an unparseable value or none, under a directly written state value: the
\* descriptor starts at the time of the call and reports "running"
C11_Witness ==
  \E p \in Procs :
    /\ Done(p, "heartbeat") /\ arg[p] = "<nil>"
    /\ env.corrupts = 0
    /\ state = "bogus"
    /\ desc[InstOf[p]] # <<>>
    /\ desc[InstOf[p]][1].json
    /\ desc[InstOf[p]][1].body.lastSeen > 0
    /\ desc[InstOf[p]][1].body.startedAt = desc[InstOf[p]][1].body.lastSeen
    /\ desc[InstOf[p]][1].body.status = "running"
    /\ desc[InstOf[p]][1].ttl = 60

\* C18: consuming a signal is not exclusive.  A poll that read a recognized
\* signal and wrote the state reports that signal as applied even when
\* another instance deleted the key in between; with a single signal
\* written, two polls that both wrote the state report the same signal.
C18_NotExclusive ==
  /\ \A p \in Procs :
       (/\ pc[p] = "g_get" /\ op[p] = "shouldStop"
        /\ "state" \in gh[p].wrote /\ "signal" \in gh[p].wrote) =>
         gh[p].applied \in {"pause", "resume", "stop"}
  /\ (/\ nSigWrites = 1
      /\ \A p \in {"a", "b"} :
           /\ pc[p] = "g_get" /\ op[p] = "shouldStop"
           /\ "state" \in gh[p].wrote /\ "signal" \in gh[p].wrote) =>
       /\ gh["a"].applied = gh["b"].applied
       /\ gh["a"].applied \in {"pause", "resume", "stop"}

\* one stop signal, read by both instances before either deleted it, and
\* applied and reported by both
C18_Witness ==
  /\ nSigWrites = 1
  /\ \A p \in {"a", "b"} :
       /\ pc[p] = "g_get" /\ op[p] = "shouldStop"
       /\ "state" \in gh[p].wrote /\ "signal" \in gh[p].wrote
       /\ gh[p].applied = "stop"
       /\ loc[p].sig = "stop"
  /\ state = "stopping"
  /\ signal = <<"<nil>">>

\* C14: a stop signal written while a waitIfPaused() call is in its loop,
\* with no signal written after it, leads to the return of that call.
C14_StopTerminates ==
  \A p \in Procs :
    gh[p].stopInLoop ~> (pc[p] = "idle" \/ ~gh[p].stopInLoop)

\* C22: when the state waitIfPaused() reads after its first signal
\* application is not paused (running, stopping, absent or unrecognized),
\* the call returns at once: one signal application, no heartbeat, no
\* sleep and no write of the instance descriptor.
C22_HotPath ==
  [][\A p \in Procs :
       (/\ op[p] = "waitIfPaused" /\ pc[p] = "g_get" /\ loc[p].phase = "first"
        /\ pc'[p] # pc[p]
        /\ state # "paused") =>
         /\ pc'[p] = "idle"
         /\ loc'[p].ret = "void"
         /\ gh'[p].nApply = 1
         /\ gh'[p].nHb = 0
         /\ gh'[p].nSleep = 0
         /\ "desc" \notin gh'[p].wrote
         /\ desc' = desc
    ]_vars

\* the hot path after a stop signal was applied
C22_Witness ==
  \E p \in Procs :
    /\ Done(p, "waitIfPaused") /\ gh[p].solo
    /\ gh[p].preState = "paused"
    /\ gh[p].preSignal \in StopForms
    /\ gh[p].applied = "stop"
    /\ state = "stopping"
    /\ gh[p].nHb = 0 /\ gh[p].nSleep = 0
    /\ "desc" \notin gh[p].wrote

\* C23: the delete of a signal application removes only the signal that
\* application read: the value under the signal key at the delete is, up
\* to letter case, the value the application read, so no signal written
\* between the read and the delete is lost.
C23_NoLostSignal ==
  [][\A p \in Procs :
       (pc[p] = "a_del" /\ pc'[p] # pc[p] /\ signal # <<"<nil>">>) =>
         /\ signal \in PauseForms => loc[p].kind = "pause"
         /\ signal \in ResumeForms => loc[p].kind = "resume"
         /\ signal \in StopForms => loc[p].kind = "stop"
         /\ signal \in UnknownForms => loc[p].kind = "unknown"
    ]_vars

\* C24: register() writes "running" to the state key only over a value
\* that is absent (or empty) or "stopping" at the moment of the write; a
\* "paused" written by another instance's signal application is never
\* overwritten by register().
C24_RegisterKeepsPaused ==
  [][\A p \in Procs :
       (/\ op[p] = "register" /\ pc[p] \in {"r_init_state", "r_recover"}
        /\ pc'[p] # pc[p]) =>
         /\ state \in {"<nil>", "", "stopping"}
         /\ state # "paused"
    ]_vars

\* C26: once another instance has applied a stop signal (or has run
\* shutdown()) and the stop is the only signal written, a shouldStop()
\* call begun after that returns true, also when a new instance
\* registers in between.
C26_StopReachesAll ==
  \A p \in Procs :
    (/\ Done(p, "shouldStop")
     /\ gh[p].afterStop
     /\ nSigWrites = 1) =>
      loc[p].ret = "true"

\* C25: once a shutdown() of an instance has completed, and unless
\* register() is called for it, every later write of the instance's
\* descriptor has a TTL of at most 10 and the status "stopping"; a
\* heartbeat that overlaps or follows the shutdown does not restore the
\* heartbeat TTL.
C25_ShutdownIsFinal ==
  [][\A i \in Inst :
       (/\ \E p \in Procs : InstOf[p] = i /\ Done(p, "shutdown")
        /\ \A p \in Procs : InstOf[p] = i => op[p] # "register" /\ op'[p] # "register"
        /\ desc'[i] # desc[i] /\ desc'[i] # <<>>) =>
         /\ desc'[i][1].ttl <= 10
         /\ desc'[i][1].body.status = "stopping"
    ]_vars

\* what a shutdown() started by a termination hook has done when it returns
C21_HookWrites ==
  \A h \in Procs :
    (Done(h, "shutdown") /\ arg[h] \in {"SIGINT", "SIGTERM"}) =>
      /\ gh[h].wrote = {"state", "desc", "instances"}
      /\ gh[h].solo =>
           /\ state = "stopping"
           /\ InstOf[h] \notin instances
           /\ desc[InstOf[h]] # <<>>
           /\ desc[InstOf[h]][1].body.status = "stopping"
           /\ desc[InstOf[h]][1].body.stopReason = arg[h]

\* C21: a termination signal received after register() runs shutdown()
\* with the signal's name, which writes the state, the descriptor and the
\* instances set; a waitIfPaused() call that is in its loop when the
\* signal arrives then returns.
C21_TerminationHook ==
  /\ []C21_HookWrites
  /\ \A p \in Procs : gh[p].hooked ~> (pc[p] = "idle")
====
